---------------------------- MODULE Spec2Model ----------------------------
(***************************************************************************)
(* Model of the schedule bot's change-detection engine:                    *)
(*   src/app.py        process_subscription, poll_updates_job, handlers    *)
(*   src/db.py         the subscriptions table                             *)
(*   src/formatting.py get_day_hash                                        *)
(*   src/providers/*   get_schedule / list_regions of the two providers    *)
(*                                                                         *)
(* Python strings that the code splits and joins (the persisted state) are *)
(* sequences of tokens: a date, a digest, and the separators "|" and ":"   *)
(* are one token each, so that make_state / parse_state are real string    *)
(* operations and not the identity.                                        *)
(***************************************************************************)
EXTENDS Naturals, Sequences, FiniteSets, TLC

\* ------------------------------------------------------------------ bounds
NUsers == 2      \* subscribers 1..NUsers
MaxDay == 2      \* the calendar runs over the days 1..MaxDay (tomorrow up to MaxDay+1)
MaxPolls == 2    \* poll_updates_job is started at most MaxPolls times
MaxUi == 1       \* at most MaxUi user-triggered handlers (subscribe / refresh)
NUiUsers == 1    \* the users 1..NUiUsers press buttons (SpecUi)
MaxStoredLen == 4 \* stored state strings of up to MaxStoredLen tokens (SpecState)
NLabels == 5      \* sample mappings over the first NLabels time labels (SpecSlots)
MaxSlots == 2     \* outage lists of up to MaxSlots slots (SpecHash)
MaxCycles == 3    \* poll cycles in a row for one subscriber (SpecCycles)

Users == 1..NUsers
UiUsers == 1..NUiUsers
Providers == {"svitlo", "ternopil"}
Tasks == {"poll", "ui"}

\* ------------------------------------------------------------ data model
\* Slot lists a feed can publish for one day (base.Slot: start, end, kind).
SlotA == [start |-> "01:00", end |-> "02:00", kind |-> "outage"]
OutageLists == { <<>>, <<SlotA>> }

\* Optional[DaySchedule]: None, or a day with its date and outages.
None == [present |-> FALSE]
DaySchedule(date, outages) == [present |-> TRUE, date |-> date, outages |-> outages]

\* A date "YYYY-MM-DD" is one token of a string.
DateStr(d) == << ToString(d) >>

\* What the feed has for a date: nothing, or a slot list.
NoData == [published |-> FALSE]
Published(o) == [published |-> TRUE, outages |-> o]

\* Optional[Subscription]: a row of the subscriptions table.
NoSub == [exists |-> FALSE]
Subscription(provider, last_hash) ==
    [exists |-> TRUE, provider |-> provider, last_hash |-> last_hash]

VARIABLES
    clock,      \* today's date (an index 1..MaxDay)
    published,  \* the feed: date -> NoData or Published(slot list)
    db,         \* subscriptions table: user_id -> NoSub or Subscription
    pollSubs,   \* poll_updates_job: the snapshot `subs` (user ids) it iterates
    pollIdx,    \* poll_updates_job: position of the for loop in pollSubs (0: none)
    run,        \* per task, the frame of its process_subscription call
    polls,      \* number of poll jobs started
    uis,        \* number of user handlers started
    calc        \* a call of one of the pure functions: its input, then its result

vars == <<clock, published, db, pollSubs, pollIdx, run, polls, uis, calc>>

\* no call of a pure function is under examination
NoCalc == [op |-> "none"]

\* ---------------------------------------------------------- formatting.py
\* get_day_hash digesting the date along with the outages
get_day_hash_WithDate(day) ==
    IF ~day.present THEN <<>> ELSE << "sha256:" \o ToString(<<day.date, day.outages>>) >>

\* get_day_hash with `if not day or not day.outages`
get_day_hash_EmptyAsAbsent(day) ==
    IF ~day.present \/ day.outages = <<>> THEN <<>> ELSE << "sha256:" \o ToString(day.outages) >>

\* get_day_hash: "" for an absent day, else sha256(str(day.outages)).
\* SHA-256 is modelled as collision free: one token per distinct slot list.
get_day_hash(day) ==
    IF ~day.present THEN <<>> ELSE << "sha256:" \o ToString(day.outages) >>

\* ------------------------------------------------- state string (app.py)
\* index of the first occurrence of token c in s (0 when absent)
Find(s, c) ==
    IF \E i \in 1..Len(s) : s[i] = c
    THEN CHOOSE i \in 1..Len(s) : s[i] = c /\ \A j \in 1..(i-1) : s[j] # c
    ELSE 0

\* s.split(c, 1) for a string that contains c
Split1(s, c) == << SubSeq(s, 1, Find(s, c) - 1), SubSeq(s, Find(s, c) + 1, Len(s)) >>

\* parse_state reading a legacy string as a date
parse_state_LegacyAsDate(state_str) ==
    IF Find(state_str, "|") # 0 THEN Split1(state_str, "|") ELSE << state_str, <<>> >>

\* parse_state: "date|hash" or just "hash" (legacy)
parse_state(state_str) ==
    IF Find(state_str, "|") # 0 THEN Split1(state_str, "|") ELSE << <<>>, state_str >>

\* make_state: "" for an absent day, else f"{day.date}|{day_hash}"
make_state(day_obj, day_hash) ==
    IF ~day_obj.present THEN <<>> ELSE day_obj.date \o <<"|">> \o day_hash

\* new_combined_hash = f"{current_today_state}:{current_tomorrow_state}"
new_combined_hash(today, tomorrow) ==
    make_state(today, get_day_hash(today)) \o <<":">> \o
    make_state(tomorrow, get_day_hash(tomorrow))

\* stored.split(":", 1), or (stored, "") when there is no ":"
stored_split(stored) ==
    IF Find(stored, ":") # 0 THEN Split1(stored, ":") ELSE << stored, <<>> >>

s_today_date(stored)    == parse_state(stored_split(stored)[1])[1]
s_today_hash(stored)    == parse_state(stored_split(stored)[1])[2]
s_tomorrow_date(stored) == parse_state(stored_split(stored)[2])[1]
s_tomorrow_hash(stored) == parse_state(stored_split(stored)[2])[2]


\* ------------------------------------------------------------------ db.py
\* get_subscription: the row, or None
get_subscription(d, user_id) == d[user_id]

\* list_subscriptions: the rows in rowid (= user_id) order; the job keeps the ids
RECURSIVE RowsFrom(_, _)
RowsFrom(d, u) ==
    IF u > NUsers THEN <<>>
    ELSE (IF d[u].exists THEN <<u>> ELSE <<>>) \o RowsFrom(d, u + 1)

list_subscriptions(d) == RowsFrom(d, 1)

\* upsert_subscription as INSERT OR REPLACE with last_hash ''
upsert_subscription_Replace(d, user_id, provider) ==
    [d EXCEPT ![user_id] = Subscription(provider, <<>>)]

\* upsert_subscription: INSERT with last_hash '' or, ON CONFLICT, keep last_hash
upsert_subscription(d, user_id, provider) ==
    [d EXCEPT ![user_id] =
        Subscription(provider, IF d[user_id].exists THEN d[user_id].last_hash ELSE <<>>)]

\* delete_subscription: DELETE ... WHERE user_id=?
delete_subscription(d, user_id) == [d EXCEPT ![user_id] = NoSub]

\* set_last_hash as an UPDATE without its WHERE clause
set_last_hash_EveryRow(d, user_id, last_hash) ==
    [u \in Users |-> IF d[u].exists THEN [d[u] EXCEPT !.last_hash = last_hash] ELSE d[u]]

\* set_last_hash as INSERT OR REPLACE: a missing row is created
set_last_hash_Insert(d, user_id, last_hash) ==
    [d EXCEPT ![user_id] =
        Subscription(IF d[user_id].exists THEN d[user_id].provider ELSE "svitlo", last_hash)]

\* set_last_hash: UPDATE ... WHERE user_id=?  (no row, no effect)
set_last_hash(d, user_id, last_hash) ==
    IF d[user_id].exists THEN [d EXCEPT ![user_id].last_hash = last_hash] ELSE d

\* -------------------------------------------------------------- providers
\* The day a provider builds for date dt out of the feed p.
build_day(p, dt) ==
    IF p[dt].published THEN DaySchedule(DateStr(dt), p[dt].outages) ELSE None

\* get_schedule when the HTTP request and the parsing succeed: (today, tomorrow)
get_schedule(p, now) == << build_day(p, now), build_day(p, now + 1) >>

\* TernopilProvider.get_schedule catches a failed _fetch itself and
\* returns (None, None, 0); SvitloProvider.get_schedule lets it propagate.
FetchErrorRaises(provider) == provider = "svitlo"

\* SvitloProvider._fetch passes ClientTimeout(total=25) to its request;
\* TernopilProvider._fetch passes no timeout, and process_subscription awaits
\* get_schedule without one.
HasFetchTimeout(provider) == provider = "svitlo"

\* SvitloProvider.list_regions fetches over the network and may raise;
\* TernopilProvider.list_regions returns a literal.
ListRegionsMayRaise(provider) == provider = "svitlo"

\* --------------------------------------------- process_subscription: decisions
NoSend == "no_send"
Plain == "plain"                       \* header=None (refresh / first_run)
HdrTodayAppeared == "today_appeared"   \* "З'явився графік на сьогодні!"
HdrTodayUpdated == "today_updated"     \* "УВАГА! Графік змінився (оновлення)!"
HdrTodayChanged == "today_changed"     \* "УВАГА! Графік змінився!"
HdrTomorrowNew == "tomorrow_appeared_changed" \* "З'явився/змінився графік на завтра!"
HdrTomorrowChanged == "tomorrow_changed"      \* "УВАГА! Графік на завтра змінився!"

\* CheckToday with every alert framed as a same-date change
CheckToday_RolloverAsChanged(today, stored) ==
    IF ~today.present THEN NoSend
    ELSE IF today.date # s_today_date(stored)
         THEN IF s_tomorrow_hash(stored) # <<>> /\ get_day_hash(today) = s_tomorrow_hash(stored)
              THEN NoSend
              ELSE HdrTodayChanged
         ELSE IF get_day_hash(today) # s_today_hash(stored) THEN HdrTodayChanged ELSE NoSend

\* CheckToday comparing a same-date today with the stored tomorrow fingerprint
CheckToday_WrongHash(today, stored) ==
    IF ~today.present THEN NoSend
    ELSE IF today.date # s_today_date(stored)
         THEN IF s_tomorrow_hash(stored) # <<>> /\ get_day_hash(today) = s_tomorrow_hash(stored)
              THEN NoSend
              ELSE IF s_tomorrow_hash(stored) # <<>> THEN HdrTodayUpdated ELSE HdrTodayAppeared
         ELSE IF get_day_hash(today) # s_tomorrow_hash(stored) THEN HdrTodayChanged ELSE NoSend

\* "Check Today" of poll mode: the header of the message to send, or NoSend
CheckToday(today, stored) ==
    IF ~today.present THEN NoSend
    ELSE IF today.date # s_today_date(stored)
         THEN IF s_tomorrow_hash(stored) # <<>> /\ get_day_hash(today) = s_tomorrow_hash(stored)
              THEN NoSend
              ELSE IF s_tomorrow_hash(stored) # <<>> THEN HdrTodayUpdated ELSE HdrTodayAppeared
         ELSE IF get_day_hash(today) # s_today_hash(stored) THEN HdrTodayChanged ELSE NoSend

\* CheckTomorrow announcing a tomorrow that was withdrawn
CheckTomorrow_AbsentAsChange(tomorrow, stored) ==
    IF ~tomorrow.present
    THEN IF s_tomorrow_hash(stored) # <<>> THEN HdrTomorrowChanged ELSE NoSend
    ELSE IF tomorrow.date # s_tomorrow_date(stored) THEN HdrTomorrowNew
         ELSE IF get_day_hash(tomorrow) # s_tomorrow_hash(stored) THEN HdrTomorrowChanged
              ELSE NoSend

\* "Check Tomorrow" of poll mode
CheckTomorrow(tomorrow, stored) ==
    IF ~tomorrow.present THEN NoSend
    ELSE IF tomorrow.date # s_tomorrow_date(stored) THEN HdrTomorrowNew
         ELSE IF get_day_hash(tomorrow) # s_tomorrow_hash(stored) THEN HdrTomorrowChanged
              ELSE NoSend

\* the today message of a run: poll compares, refresh / first_run always send
TodayMessage(mode, today, stored) ==
    IF mode = "poll" THEN CheckToday(today, stored) ELSE Plain

\* the tomorrow message of a run
TomorrowMessage(mode, tomorrow, stored) ==
    IF mode = "poll" THEN CheckTomorrow(tomorrow, stored)
    ELSE IF tomorrow.present THEN Plain ELSE NoSend

\* whether the run calls set_last_hash once its sends are over
SaveNeeded(mode, today, tomorrow, stored) ==
    IF mode = "poll" THEN new_combined_hash(today, tomorrow) # stored ELSE TRUE

\* ------------------------------------------------------------------ frames
\* bot.send_message: delivered, TelegramForbiddenError, or another exception
SendResults == {"ok", "forbidden", "error"}

IdleFrame ==
    [pc |-> "idle", user |-> 0, mode |-> "", sub |-> NoSub,
     today |-> None, tomorrow |-> None,
     fetched |-> "", sends |-> <<>>, wrote |-> FALSE, end |-> "", after |-> NoSub]

\* the frame of a call process_subscription(user_id, mode) that has not run yet
CallFrame(user_id, mode) == [IdleFrame EXCEPT !.pc = "start", !.user = user_id, !.mode = mode]

\* Sent with the message going out ahead of the run's earlier ones
Sent_Ahead(f, day, header, result) ==
    [f EXCEPT !.sends = <<[day |-> day, header |-> header, result |-> result]>> \o @]

\* the run has awaited bot.send_message for `day`, with this outcome
Sent(f, day, header, result) ==
    [f EXCEPT !.sends = Append(@, [day |-> day, header |-> header, result |-> result])]

\* the call is over: its frame stays for inspection until the task's next call
End(t, f, how, d) ==
    /\ db' = d
    /\ run' = [run EXCEPT ![t] = [f EXCEPT !.pc = "done", !.end = how, !.after = d[f.user]]]

\* the call goes on to its next await
Goes(t, f) ==
    /\ db' = db
    /\ run' = [run EXCEPT ![t] = f]

\* Return with a failed run ending the job's for loop
ReturnStopsOnFailure(t, f, how, d) ==
    /\ End(t, f, how, d)
    /\ pollSubs' = pollSubs
    /\ pollIdx' = IF t = "poll" /\ how # "returned" THEN Len(pollSubs) ELSE pollIdx

\* process_subscription returns; the caller's loop is where it was
Return(t, f, how, d) ==
    /\ End(t, f, how, d)
    /\ UNCHANGED <<pollSubs, pollIdx>>

\* Raise without the DELETE of the TelegramForbiddenError clause
RaiseKeepsRow(t, f, kind) ==
    /\ End(t, f, "raised_" \o kind, db)
    /\ UNCHANGED <<pollSubs, pollIdx>>

\* Raise with the exception caught outside the for loop: the job ends
RaiseLeavesLoop(t, f, kind) ==
    /\ End(t, f, "raised_" \o kind,
           IF t = "poll" /\ kind = "forbidden" THEN delete_subscription(db, f.user) ELSE db)
    /\ pollSubs' = pollSubs
    /\ pollIdx' = IF t = "poll" THEN Len(pollSubs) ELSE pollIdx

\* an exception leaves process_subscription.  In poll_updates_job the except
\* clauses inside the for loop catch it: TelegramForbiddenError deletes the
\* subscription, any other exception is printed, and the loop goes on.
\* In a handler the exception goes to the dispatcher.
Raise(t, f, kind) ==
    /\ End(t, f, "raised_" \o kind,
           IF t = "poll" /\ kind = "forbidden" THEN delete_subscription(db, f.user) ELSE db)
    /\ UNCHANGED <<pollSubs, pollIdx>>

\* lines 311-319: read the subscription; leave when there is none
Begin(t, f) ==
    LET sub == get_subscription(db, f.user) IN
    IF ~sub.exists
    THEN IF f.mode = "poll"
         THEN End(t, f, "no_sub", db)
         ELSE \E res \in SendResults :
                End(t, Sent(f, "nosub", Plain, res),
                    IF res = "ok" THEN "no_sub" ELSE "raised_" \o res, db)
    ELSE IF sub.provider \notin Providers
         THEN End(t, f, "no_provider", db)
         ELSE Goes(t, [f EXCEPT !.pc = "fetch", !.sub = sub])

\* ---------------------------------------------------------------- actions
\* Stored states an earlier run can have left: none yet, or what was
\* observed on the first day (both days absent: ":").
StoredBefore == { <<>>, new_combined_hash(None, None) }

Init ==
    /\ clock = 1
    /\ published = [d \in 1..(MaxDay + 1) |-> NoData]
    /\ db \in [Users -> {NoSub} \cup {Subscription(p, <<>>) : p \in Providers}]
    /\ pollSubs = <<>>
    /\ pollIdx = 0
    /\ run = [t \in Tasks |-> IdleFrame]
    /\ polls = 0
    /\ uis = 0
    /\ calc = NoCalc

\* Only get_schedule reads the clock and the feed, so their changes are taken
\* right before a pending fetch: every other step commutes with them.
FetchPending == \E t \in Tasks : run[t].pc = "fetch"

\* midnight: tomorrow becomes today; the feed's past day is never read again
Tick ==
    /\ FetchPending
    /\ clock < MaxDay
    /\ clock' = clock + 1
    /\ published' = [published EXCEPT ![clock] = NoData]
    /\ UNCHANGED <<db, pollSubs, pollIdx, run, polls, uis, calc>>

\* the feed publishes, edits or withdraws the schedule of today or tomorrow
Publish ==
    /\ FetchPending
    /\ \E dt \in {clock, clock + 1}, v \in {NoData} \cup {Published(o) : o \in OutageLists} :
         /\ published[dt] # v
         /\ published' = [published EXCEPT ![dt] = v]
    /\ UNCHANGED <<clock, db, pollSubs, pollIdx, run, polls, uis, calc>>

\* poll_updates_job starts (the scheduler runs one instance at a time):
\* snapshot the rows, call process_subscription for the first
poll_updates_job ==
    /\ pollIdx = Len(pollSubs)
    /\ run["poll"].pc \in {"idle", "done"}
    /\ polls < MaxPolls
    /\ polls' = polls + 1
    /\ pollSubs' = list_subscriptions(db)
    /\ IF pollSubs' = <<>>
       THEN /\ pollIdx' = 0
            /\ run' = [run EXCEPT !["poll"] = IdleFrame]
            /\ db' = db
       ELSE /\ pollIdx' = 1
            /\ Begin("poll", CallFrame(pollSubs'[1], "poll"))
    /\ UNCHANGED <<clock, published, uis, calc>>

\* the for loop of poll_updates_job goes on to the next row of its snapshot
PollNext ==
    /\ pollIdx < Len(pollSubs)
    /\ run["poll"].pc = "done"
    /\ pollIdx' = pollIdx + 1
    /\ pollSubs' = pollSubs
    /\ Begin("poll", CallFrame(pollSubs[pollIdx + 1], "poll"))
    /\ UNCHANGED <<clock, published, polls, uis, calc>>

\* handler pick_subgroup: upsert, then (after two awaits) first_run
pick_subgroup ==
    /\ run["ui"].pc \in {"idle", "done"}
    /\ uis < MaxUi
    /\ uis' = uis + 1
    /\ \E u \in UiUsers, p \in Providers :
         /\ db' = upsert_subscription(db, u, p)
         /\ run' = [run EXCEPT !["ui"] = CallFrame(u, "first_run")]
    /\ UNCHANGED <<clock, published, pollSubs, pollIdx, polls, calc>>

\* process_subscription(mode="first_run") of pick_subgroup begins
FirstRun ==
    /\ run["ui"].pc = "start"
    /\ Begin("ui", run["ui"])
    /\ UNCHANGED <<clock, published, pollSubs, pollIdx, polls, uis, calc>>

\* handler act_refresh: process_subscription(mode="refresh")
act_refresh ==
    /\ run["ui"].pc \in {"idle", "done"}
    /\ uis < MaxUi
    /\ uis' = uis + 1
    /\ \E u \in UiUsers : Begin("ui", CallFrame(u, "refresh"))
    /\ UNCHANGED <<clock, published, pollSubs, pollIdx, polls, calc>>

\* What the feed does with a request: it answers with data, it fails (HTTP
\* error, unparsable body), or it never answers.
FeedAnswers == {"ok", "error", "silent"}

\* "1. Fetch data": await prov.get_schedule(...).  A request that is never
\* answered ends as an exception when it has a timeout and stays pending
\* when it has none.
Fetch(t) ==
    LET f == run[t] IN
    /\ f.pc = "fetch"
    /\ \E answer \in FeedAnswers :
         IF answer = "ok"
         THEN /\ Goes(t, [f EXCEPT !.pc = "today", !.fetched = "ok",
                                     !.today = get_schedule(published, clock)[1],
                                     !.tomorrow = get_schedule(published, clock)[2]])
              /\ UNCHANGED <<pollSubs, pollIdx>>
         ELSE IF answer = "silent" /\ ~HasFetchTimeout(f.sub.provider)
              THEN /\ Goes(t, [f EXCEPT !.pc = "hung"])
                   /\ UNCHANGED <<pollSubs, pollIdx>>
              ELSE IF FetchErrorRaises(f.sub.provider)
                   THEN Return(t, [f EXCEPT !.fetched = "failed"], "fetch_failed", db)
                   ELSE /\ Goes(t, [f EXCEPT !.pc = "today", !.fetched = "failed",
                                               !.today = None, !.tomorrow = None])
                        /\ UNCHANGED <<pollSubs, pollIdx>>
    /\ UNCHANGED <<clock, published, polls, uis, calc>>

\* "5. Resolve Region Name" (await prov.list_regions()) and the today message
Today(t) ==
    LET f == run[t]
        msg == TodayMessage(f.mode, f.today, f.sub.last_hash) IN
    /\ f.pc = "today"
    /\ \E regions_ok \in (IF ListRegionsMayRaise(f.sub.provider) THEN BOOLEAN ELSE {TRUE}) :
         IF ~regions_ok THEN Return(t, f, "regions_failed", db)
         ELSE IF msg = NoSend
              THEN /\ Goes(t, [f EXCEPT !.pc = "tomorrow"])
                   /\ UNCHANGED <<pollSubs, pollIdx>>
              ELSE \E res \in SendResults :
                     IF res = "ok"
                     THEN /\ Goes(t, [Sent(f, "today", msg, res) EXCEPT !.pc = "tomorrow"])
                          /\ UNCHANGED <<pollSubs, pollIdx>>
                     ELSE Raise(t, Sent(f, "today", msg, res), res)
    /\ UNCHANGED <<clock, published, polls, uis, calc>>

\* the end of a run that raised nothing: set_last_hash when needed, return
Save(t, f) ==
    IF SaveNeeded(f.mode, f.today, f.tomorrow, f.sub.last_hash)
    THEN Return(t, [f EXCEPT !.wrote = TRUE], "returned",
                set_last_hash(db, f.user, new_combined_hash(f.today, f.tomorrow)))
    ELSE Return(t, f, "returned", db)

\* the tomorrow message, then the save
Tomorrow(t) ==
    LET f == run[t]
        msg == TomorrowMessage(f.mode, f.tomorrow, f.sub.last_hash) IN
    /\ f.pc = "tomorrow"
    /\ IF msg = NoSend THEN Save(t, f)
       ELSE \E res \in SendResults :
              IF res = "ok" THEN Save(t, Sent(f, "tomorrow", msg, res))
              ELSE Raise(t, Sent(f, "tomorrow", msg, res), res)
    /\ UNCHANGED <<clock, published, polls, uis, calc>>

\* The scheduled job alone: no handler runs.
Next ==
    \/ Tick
    \/ Publish
    \/ poll_updates_job
    \/ PollNext
    \/ Fetch("poll")
    \/ Today("poll")
    \/ Tomorrow("poll")

Spec == Init /\ [][Next]_vars

\* One cycle of the scheduled job on the event loop: a coroutine whose awaited
\* request has completed is resumed, and the for loop of a running job goes
\* on.  Earlier cycles are over: what they left is the stored state.
InitLive ==
    /\ clock = 1
    /\ published = [d \in 1..(MaxDay + 1) |-> NoData]
    /\ db \in [Users -> {NoSub} \cup {Subscription(p, h) : p \in Providers, h \in StoredBefore}]
    /\ pollSubs = <<>>
    /\ pollIdx = 0
    /\ run = [t \in Tasks |-> IdleFrame]
    /\ polls = MaxPolls - 1
    /\ uis = 0
    /\ calc = NoCalc

SpecLive ==
    /\ InitLive /\ [][Next]_vars
    /\ WF_vars(PollNext)
    /\ WF_vars(Fetch("poll"))
    /\ WF_vars(Today("poll"))
    /\ WF_vars(Tomorrow("poll"))

\* The scheduled job together with the handlers of the users who press
\* buttons, within one day.  Earlier poll cycles are over: what they left is
\* the stored state.
InitUi ==
    /\ clock = MaxDay
    /\ published = [d \in 1..(MaxDay + 1) |-> NoData]
    /\ db \in [Users -> {NoSub} \cup {Subscription(p, h) : p \in Providers, h \in StoredBefore}]
    /\ \A u \in Users \ UiUsers : db[u] \in {NoSub, Subscription("ternopil", <<>>)}
    /\ pollSubs = <<>>
    /\ pollIdx = 0
    /\ run = [t \in Tasks |-> IdleFrame]
    /\ polls = MaxPolls - 1
    /\ uis = 0
    /\ calc = NoCalc

NextUi ==
    \/ Publish
    \/ poll_updates_job
    \/ PollNext
    \/ pick_subgroup
    \/ FirstRun
    \/ act_refresh
    \/ \E t \in Tasks : Fetch(t)
    \/ \E t \in Tasks : Today(t)
    \/ \E t \in Tasks : Tomorrow(t)

SpecUi == InitUi /\ [][NextUi]_vars

\* ------------------------------------------- the state string on its own
\* The days a fetch can return, over all dates of the calendar.
Days == {None} \cup {DaySchedule(DateStr(d), o) : d \in 1..(MaxDay + 1), o \in OutageLists}

\* One side of a legacy state string: a bare fingerprint, or nothing.
LegacySides == {<<>>} \cup {get_day_hash(DaySchedule(<<>>, o)) : o \in OutageLists}

\* The tokens of a stored string: the separators, a date and a fingerprint.
StoredTokens == {"|", ":"} \cup {DateStr(1)[1]} \cup {get_day_hash(DaySchedule(<<>>, <<SlotA>>))[1]}

\* Every string the last_hash column can hold (TEXT NOT NULL), up to MaxStoredLen.
StoredStrings == UNION {[1..n -> StoredTokens] : n \in 0..MaxStoredLen}

\* Calls of the functions of the state string: a pair of days to encode and
\* parse back, the two sides of a legacy string to parse, or the decisions
\* of a poll run from a stored string and a pair of fetched days.
StateCalls ==
    {[op |-> "roundtrip", stage |-> "days", today |-> a, tomorrow |-> b] : a \in Days, b \in Days}
    \cup {[op |-> "legacy", stage |-> "string", today_side |-> a, tomorrow_side |-> b,
           str |-> a \o <<":">> \o b] : a \in LegacySides, b \in LegacySides}
    \cup {[op |-> "decide", stage |-> "stored", stored |-> st, today |-> a, tomorrow |-> b] :
           st \in StoredStrings, a \in Days, b \in Days}

InitState ==
    /\ clock = 1
    /\ published = [d \in 1..(MaxDay + 1) |-> NoData]
    /\ db = [u \in Users |-> NoSub]
    /\ pollSubs = <<>>
    /\ pollIdx = 0
    /\ run = [t \in Tasks |-> IdleFrame]
    /\ polls = 0
    /\ uis = 0
    /\ calc \in StateCalls

\* "3. Calculate current state": the string that would be stored
MakeState ==
    /\ calc.op = "roundtrip" /\ calc.stage = "days"
    /\ calc' = [op |-> "roundtrip", stage |-> "string",
                today |-> calc.today, tomorrow |-> calc.tomorrow,
                str |-> new_combined_hash(calc.today, calc.tomorrow)]
    /\ UNCHANGED <<clock, published, db, pollSubs, pollIdx, run, polls, uis>>

\* "4. Get stored state": the four parts read out of a stored string
ParseState ==
    /\ calc.op \in {"roundtrip", "legacy"} /\ calc.stage = "string"
    /\ calc' = [calc EXCEPT !.stage = "pairs"] @@
                [today_pair |-> <<s_today_date(calc.str), s_today_hash(calc.str)>>,
                 tomorrow_pair |-> <<s_tomorrow_date(calc.str), s_tomorrow_hash(calc.str)>>]
    /\ UNCHANGED <<clock, published, db, pollSubs, pollIdx, run, polls, uis>>

\* "6. Logic based on mode", poll: what the run sends and what it writes
Decide ==
    /\ calc.op = "decide" /\ calc.stage = "stored"
    /\ calc' = [calc EXCEPT !.stage = "decided"] @@
                [today_msg |-> CheckToday(calc.today, calc.stored),
                 tomorrow_msg |-> CheckTomorrow(calc.tomorrow, calc.stored),
                 writes |-> SaveNeeded("poll", calc.today, calc.tomorrow, calc.stored),
                 new_state |-> new_combined_hash(calc.today, calc.tomorrow)]
    /\ UNCHANGED <<clock, published, db, pollSubs, pollIdx, run, polls, uis>>

NextState ==
    \/ MakeState
    \/ ParseState
    \/ Decide

SpecState == InitState /\ [][NextState]_vars

\* ------------------------------------------------- the slot extractors
\* A time label "HH:MM" is the tuple of its four digits (the colon has a
\* fixed place), so that ordering labels as strings and ordering them by
\* their minutes are two computations.
AllLabels ==
    << <<0,0,0,0>>, <<0,1,0,0>>, <<0,1,3,0>>, <<0,2,0,0>>, <<1,0,0,0>>, <<2,3,3,0>>, <<0,9,3,0>> >>

Labels == {AllLabels[i] : i \in 1..NLabels}

\* the sentinel "24:00"
EndOfDay == <<2,4,0,0>>

\* to_minutes: int(h) * 60 + int(m)
to_minutes(t) == (t[1] * 10 + t[2]) * 60 + t[3] * 10 + t[4]

\* Python's < on two strings of digits of the same length
StrLess(a, b) ==
    \E i \in 1..Len(a) : a[i] < b[i] /\ \A j \in 1..(i - 1) : a[j] = b[j]

\* sorted(slots.keys(), key=to_minutes)
RECURSIVE sorted_by_minutes(_)
sorted_by_minutes(keys) ==
    IF keys = {} THEN <<>>
    ELSE LET first == CHOOSE t \in keys : \A u \in keys : to_minutes(t) <= to_minutes(u)
         IN <<first>> \o sorted_by_minutes(keys \ {first})

\* sorted(times.keys()) handing the keys on in descending order
RECURSIVE sorted_keys_Descending(_)
sorted_keys_Descending(keys) ==
    IF keys = {} THEN <<>>
    ELSE LET last == CHOOSE t \in keys : \A u \in keys : u = t \/ StrLess(u, t)
         IN <<last>> \o sorted_keys_Descending(keys \ {last})

\* sorted(times.keys()): the keys in string order
RECURSIVE sorted_keys(_)
sorted_keys(keys) ==
    IF keys = {} THEN <<>>
    ELSE LET first == CHOOSE t \in keys : \A u \in keys : u = t \/ StrLess(t, u)
         IN <<first>> \o sorted_keys(keys \ {first})

\* the codes of the two feeds
SvitloCodes == {0, 1, 2}      \* 2 = outage, 1 = power, 0 = no data
TernopilCodes == {0, 1, 10}   \* 0 = on, 1 = outage, 10 = switching

\* prev_val = None before the first sample: equal to no code
NoVal == 99

Slot(start, end, kind) == [start |-> start, end |-> end, kind |-> kind]

\* the for loop of SvitloProvider._slots_to_intervals from the i-th key on,
\* and the closing of a day that ends in an outage
RECURSIVE svitlo_walk(_, _, _, _, _, _)
svitlo_walk(slots, times, i, prev_val, start_time, outages) ==
    IF i > Len(times)
    THEN IF prev_val = 2 THEN Append(outages, Slot(start_time, EndOfDay, "outage")) ELSE outages
    ELSE LET t == times[i]
             val == slots[t]
         IN svitlo_walk(slots, times, i + 1, val,
                        IF val = 2 /\ prev_val # 2 THEN t ELSE start_time,
                        IF prev_val = 2 /\ val # 2
                        THEN Append(outages, Slot(start_time, t, "outage")) ELSE outages)

\* SvitloProvider._slots_to_intervals
slots_to_intervals(slots) ==
    svitlo_walk(slots, sorted_by_minutes(DOMAIN slots), 1, NoVal, <<>>, <<>>)

\* get_state reading the switching code as an outage
get_state_SwitchingAsOutage(v) == IF v = 1 \/ v = 10 THEN "outage" ELSE "on"

\* get_state of TernopilProvider._slots_from_times
get_state(v) == IF v = 1 THEN "outage" ELSE IF v = 10 THEN "switching" ELSE "on"

\* the for loop of TernopilProvider._slots_from_times from the i-th key on,
\* and the closing of the last interval
RECURSIVE ternopil_walk(_, _, _, _, _, _)
ternopil_walk(times, keys, i, prev_state, start_time, slots) ==
    IF i > Len(keys)
    THEN IF prev_state \in {"outage", "switching"}
         THEN Append(slots, Slot(start_time, EndOfDay, prev_state)) ELSE slots
    ELSE LET t == keys[i]
             current_state == get_state(times[t])
         IN IF current_state # prev_state
            THEN ternopil_walk(times, keys, i + 1, current_state, t,
                               IF prev_state \in {"outage", "switching"}
                               THEN Append(slots, Slot(start_time, t, prev_state)) ELSE slots)
            ELSE ternopil_walk(times, keys, i + 1, prev_state, start_time, slots)

\* TernopilProvider._slots_from_times
slots_from_times(times) ==
    LET keys == sorted_keys(DOMAIN times) IN
    IF keys = <<>> THEN <<>>
    ELSE ternopil_walk(times, keys, 1, get_state(times[keys[1]]), keys[1], <<>>)

\* build_day of SvitloProvider.get_schedule: None for a day without samples
\* or with samples that are all 0 (no data), else the day with its outages
svitlo_build_day(day_slots) ==
    IF DOMAIN day_slots = {} THEN None
    ELSE IF \A t \in DOMAIN day_slots : day_slots[t] = 0 THEN None
    ELSE DaySchedule(DateStr(1), slots_to_intervals(day_slots))

\* TernopilProvider.get_schedule for a graph that has "times": the day with
\* the slots of its times, whatever the times hold
ternopil_build_day(times) == DaySchedule(DateStr(1), slots_from_times(times))

\* the sample mappings of one day: some of the labels, each with a code
Samples(codes) == UNION {[keys -> codes] : keys \in SUBSET Labels}

InitSlots ==
    /\ clock = 1
    /\ published = [d \in 1..(MaxDay + 1) |-> NoData]
    /\ db = [u \in Users |-> NoSub]
    /\ pollSubs = <<>>
    /\ pollIdx = 0
    /\ run = [t \in Tasks |-> IdleFrame]
    /\ polls = 0
    /\ uis = 0
    /\ calc \in {[op |-> "svitlo", stage |-> "samples", samples |-> m] : m \in Samples(SvitloCodes)}
              \cup {[op |-> "ternopil", stage |-> "samples", samples |-> m] : m \in Samples(TernopilCodes)}

\* build_day of SvitloProvider.get_schedule extracts the outages of a day
SvitloExtract ==
    /\ calc.op = "svitlo" /\ calc.stage = "samples"
    /\ calc' = [op |-> "svitlo", stage |-> "slots", samples |-> calc.samples,
                outages |-> slots_to_intervals(calc.samples),
                day |-> svitlo_build_day(calc.samples)]
    /\ UNCHANGED <<clock, published, db, pollSubs, pollIdx, run, polls, uis>>

\* TernopilProvider.get_schedule extracts the slots of a graph
TernopilExtract ==
    /\ calc.op = "ternopil" /\ calc.stage = "samples"
    /\ calc' = [op |-> "ternopil", stage |-> "slots", samples |-> calc.samples,
                outages |-> slots_from_times(calc.samples),
                day |-> ternopil_build_day(calc.samples)]
    /\ UNCHANGED <<clock, published, db, pollSubs, pollIdx, run, polls, uis>>

NextSlots ==
    \/ SvitloExtract
    \/ TernopilExtract

SpecSlots == InitSlots /\ [][NextSlots]_vars

\* ----------------------------------------------- the fingerprint on its own
\* Slots that differ from SlotA in one field each: end, start, kind.
HashSlots ==
    {SlotA,
     [start |-> "01:00", end |-> "02:30", kind |-> "outage"],
     [start |-> "01:30", end |-> "02:00", kind |-> "outage"],
     [start |-> "01:00", end |-> "02:00", kind |-> "switching"]}

\* the outage lists of up to MaxSlots of these slots, in any order
HashLists == UNION {[1..n -> HashSlots] : n \in 0..MaxSlots}

\* a DaySchedule as a provider constructs it: title, date, group_key, outages
FullDay(title, date, group_key, outages) ==
    [present |-> TRUE, title |-> title, date |-> date, group_key |-> group_key,
     outages |-> outages]

HashDays ==
    {None} \cup {FullDay(ti, DateStr(d), g, o) :
                   ti \in {"today: <date>", "tomorrow: <date>"}, d \in 1..2, g \in {"1.1", "3.1"},
                   o \in HashLists}

\* Slots that follow one another, so that schedule_to_text merges them.
RenderSlots ==
    {SlotA,
     [start |-> "02:00", end |-> "03:00", kind |-> "switching"],
     [start |-> "03:00", end |-> "04:00", kind |-> "outage"]}

RenderDays ==
    {None} \cup {FullDay("today: <date>", DateStr(1), "1.1", o) :
                   o \in UNION {[1..n -> RenderSlots] : n \in 0..MaxSlots}}

\* the while loop of schedule_to_text that replaces a merged pair of slots
\* in the list by the merged slot
RECURSIVE text_walk_MergeInPlace(_, _, _)
text_walk_MergeInPlace(slots, i, lines) ==
    IF i > Len(slots) THEN [text |-> lines, slots |-> slots]
    ELSE IF /\ i + 1 <= Len(slots)
            /\ {slots[i].kind, slots[i + 1].kind} = {"outage", "switching"}
            /\ slots[i].end = slots[i + 1].start
         THEN text_walk_MergeInPlace(
                  SubSeq(slots, 1, i - 1)
                  \o <<[start |-> slots[i].start, end |-> slots[i + 1].end, kind |-> "outage"]>>
                  \o SubSeq(slots, i + 2, Len(slots)),
                  i + 1,
                  Append(lines, <<"merged", slots[i].start, slots[i + 1].end>>))
         ELSE text_walk_MergeInPlace(slots, i + 1,
                  Append(lines, <<slots[i].kind, slots[i].start, slots[i].end>>))

\* the while loop of schedule_to_text from slot i on: `slots` is the day's
\* own list (slots = day.outages), `lines` the text so far
RECURSIVE text_walk(_, _, _)
text_walk(slots, i, lines) ==
    IF i > Len(slots) THEN [text |-> lines, slots |-> slots]
    ELSE IF /\ i + 1 <= Len(slots)
            /\ slots[i].kind = "outage" /\ slots[i + 1].kind = "switching"
            /\ slots[i].end = slots[i + 1].start
         THEN text_walk(slots, i + 2,
                  Append(lines, <<"switching on from", slots[i].start, slots[i + 1].end, slots[i].end>>))
         ELSE IF /\ i + 1 <= Len(slots)
                 /\ slots[i].kind = "switching" /\ slots[i + 1].kind = "outage"
                 /\ slots[i].end = slots[i + 1].start
              THEN text_walk(slots, i + 2,
                       Append(lines, <<"switching off from", slots[i].start, slots[i + 1].end, slots[i].start>>))
              ELSE text_walk(slots, i + 1,
                       Append(lines, <<slots[i].kind, slots[i].start, slots[i].end>>))

\* schedule_to_text: the text of the message, and the day's list as the
\* call leaves it
schedule_to_text(region_name, day, header) ==
    IF ~day.present THEN [text |-> <<<<region_name>>, <<"no data">>>>, slots |-> <<>>]
    ELSE LET head == << (IF header # Plain THEN <<header, region_name>> ELSE <<region_name>>),
                        <<day.group_key>>, <<day.title>> >>
         IN IF day.outages = <<>>
            THEN [text |-> Append(head, <<"no outages planned">>), slots |-> day.outages]
            ELSE text_walk(day.outages, 1, Append(head, <<"outages:">>))

InitHash ==
    /\ clock = 1
    /\ published = [d \in 1..(MaxDay + 1) |-> NoData]
    /\ db = [u \in Users |-> NoSub]
    /\ pollSubs = <<>>
    /\ pollIdx = 0
    /\ run = [t \in Tasks |-> IdleFrame]
    /\ polls = 0
    /\ uis = 0
    /\ calc \in {[op |-> "hash", stage |-> "days", a |-> x, b |-> y] : x \in HashDays, y \in HashDays}
              \cup {[op |-> "render", stage |-> "day", day |-> x, header |-> h] :
                     x \in RenderDays, h \in {Plain, HdrTodayChanged}}

\* h_today / h_tomorrow of two fetched days, the first one digested twice
Hash ==
    /\ calc.op = "hash" /\ calc.stage = "days"
    /\ calc' = [op |-> "hash", stage |-> "hashes", a |-> calc.a, b |-> calc.b,
                h_a |-> get_day_hash(calc.a), h_a_again |-> get_day_hash(calc.a),
                h_b |-> get_day_hash(calc.b)]
    /\ UNCHANGED <<clock, published, db, pollSubs, pollIdx, run, polls, uis>>

\* send_schedule_message for a day whose state was computed before: the
\* text is rendered, and the day is what the rendering has left of it
Render ==
    /\ calc.op = "render" /\ calc.stage = "day"
    /\ LET out == schedule_to_text("region", calc.day, calc.header) IN
       calc' = [op |-> "render", stage |-> "sent", day |-> calc.day, header |-> calc.header,
                hash_before |-> get_day_hash(calc.day),
                state_before |-> make_state(calc.day, get_day_hash(calc.day)),
                text |-> out.text,
                day_after |-> IF calc.day.present
                              THEN [calc.day EXCEPT !.outages = out.slots] ELSE calc.day]
    /\ UNCHANGED <<clock, published, db, pollSubs, pollIdx, run, polls, uis>>

NextHash ==
    \/ Hash
    \/ Render

SpecHash == InitHash /\ [][NextHash]_vars

\* ------------------------------------ poll cycles of one subscriber in a row
\* Subscriber 1 alone, no handler: each cycle of the job is one call of
\* process_subscription(1, "poll"), taken here as one step from the fetch to
\* the return, and calc keeps the log of the cycles so far.
InitCycles ==
    /\ clock = 1
    /\ published = [d \in 1..(MaxDay + 1) |-> NoData]
    /\ db \in {[u \in Users |-> IF u = 1 THEN Subscription(p, <<>>) ELSE NoSub] : p \in Providers}
    /\ pollSubs = <<>>
    /\ pollIdx = 0
    /\ run = [t \in Tasks |-> IdleFrame]
    /\ polls = 0
    /\ uis = 0
    /\ calc = [op |-> "cycles", log |-> <<>>]

\* the cycle is over: its frame goes to the log, the row is what it left
CycleEnds(f, how, d) ==
    /\ db' = d
    /\ calc' = [calc EXCEPT !.log = Append(@, [f EXCEPT !.pc = "done", !.end = how,
                                                         !.after = d[f.user]])]

\* an exception of a send reaches the except clauses of poll_updates_job
CycleRaises(f, kind) ==
    CycleEnds(f, "raised_" \o kind,
              IF kind = "forbidden" THEN delete_subscription(db, f.user) ELSE db)

\* the save at the end of a run whose sends raised nothing
CycleSaves(f) ==
    IF SaveNeeded(f.mode, f.today, f.tomorrow, f.sub.last_hash)
    THEN CycleEnds([f EXCEPT !.wrote = TRUE], "returned",
                   set_last_hash(db, f.user, new_combined_hash(f.today, f.tomorrow)))
    ELSE CycleEnds(f, "returned", db)

\* the tomorrow check of the run, then the save
CycleTomorrow(f) ==
    LET msg == TomorrowMessage(f.mode, f.tomorrow, f.sub.last_hash) IN
    IF msg = NoSend THEN CycleSaves(f)
    ELSE \E res \in SendResults :
           IF res = "ok" THEN CycleSaves(Sent(f, "tomorrow", msg, res))
           ELSE CycleRaises(Sent(f, "tomorrow", msg, res), res)

\* list_regions and the today check of the run
CycleToday(f) ==
    LET msg == TodayMessage(f.mode, f.today, f.sub.last_hash) IN
    \E regions_ok \in (IF ListRegionsMayRaise(f.sub.provider) THEN BOOLEAN ELSE {TRUE}) :
      IF ~regions_ok THEN CycleEnds(f, "regions_failed", db)
      ELSE IF msg = NoSend THEN CycleTomorrow(f)
           ELSE \E res \in SendResults :
                  IF res = "ok" THEN CycleTomorrow(Sent(f, "today", msg, res))
                  ELSE CycleRaises(Sent(f, "today", msg, res), res)

\* One cycle of poll_updates_job for the subscriber: the day may have turned
\* and the feed may have changed since the cycle before; the request is
\* answered or fails.
PollCycle ==
    /\ calc.op = "cycles"
    /\ Len(calc.log) < MaxCycles
    /\ db[1].exists
    /\ \E now \in {clock, clock + 1} :
         /\ now <= MaxDay
         /\ clock' = now
         /\ \E feed \in [1..(MaxDay + 1) -> {NoData} \cup {Published(o) : o \in OutageLists}] :
              /\ \A d \in 1..(MaxDay + 1) : d \notin {now, now + 1} => feed[d] = NoData
              /\ published' = feed
    /\ LET f == [CallFrame(1, "poll") EXCEPT !.sub = get_subscription(db, 1)] IN
       \E answer \in {"ok", "error"} :
         IF answer = "ok"
         THEN CycleToday([f EXCEPT !.fetched = "ok",
                                   !.today = get_schedule(published', clock')[1],
                                   !.tomorrow = get_schedule(published', clock')[2]])
         ELSE IF FetchErrorRaises(f.sub.provider)
              THEN CycleEnds([f EXCEPT !.fetched = "failed"], "fetch_failed", db)
              ELSE CycleToday([f EXCEPT !.fetched = "failed", !.today = None, !.tomorrow = None])
    /\ UNCHANGED <<pollSubs, pollIdx, run, polls, uis>>

NextCycles == PollCycle

SpecCycles == InitCycles /\ [][NextCycles]_vars

\* --------------------------------------------- deletion by the broadcast
\* The admin's /broadcast runs beside the scheduled job and the handlers:
\* it deletes the rows of the users who have blocked the bot.  `calc` holds
\* the handler's locals.
get_all_user_ids(d) == RowsFrom(d, 1)

\* cmd_broadcast up to its for loop: the user ids are read once
cmd_broadcast ==
    /\ calc.op = "broadcast" /\ calc.stage = "idle"
    /\ calc' = [op |-> "broadcast",
                stage |-> IF get_all_user_ids(db) = <<>> THEN "done" ELSE "loop",
                user_ids |-> get_all_user_ids(db), idx |-> 0, deleted |-> {}]
    /\ UNCHANGED <<clock, published, db, pollSubs, pollIdx, run, polls, uis>>

\* one turn of the for loop of cmd_broadcast: the text is sent, and
\* TelegramForbiddenError deletes the row
BroadcastSend ==
    /\ calc.op = "broadcast" /\ calc.stage = "loop"
    /\ LET uid == calc.user_ids[calc.idx + 1] IN
       \E res \in SendResults :
         /\ db' = IF res = "forbidden" THEN delete_subscription(db, uid) ELSE db
         /\ calc' = [calc EXCEPT !.idx = @ + 1,
                                 !.stage = IF calc.idx + 1 = Len(calc.user_ids) THEN "done" ELSE "loop",
                                 !.deleted = IF res = "forbidden" THEN @ \cup {uid} ELSE @]
    /\ UNCHANGED <<clock, published, pollSubs, pollIdx, run, polls, uis>>

\* One poll cycle, one button press and one broadcast within one day; every
\* user is subscribed, and the feed holds today's schedule all day.
InitDel ==
    /\ clock = MaxDay
    /\ published = [d \in 1..(MaxDay + 1) |-> IF d = MaxDay THEN Published(<<SlotA>>) ELSE NoData]
    /\ db \in [Users -> {Subscription("svitlo", h) : h \in StoredBefore}]
    /\ pollSubs = <<>>
    /\ pollIdx = 0
    /\ run = [t \in Tasks |-> IdleFrame]
    /\ polls = MaxPolls - 1
    /\ uis = 0
    /\ calc = [op |-> "broadcast", stage |-> "idle"]

NextDel ==
    \/ poll_updates_job
    \/ PollNext
    \/ pick_subgroup
    \/ FirstRun
    \/ act_refresh
    \/ cmd_broadcast
    \/ BroadcastSend
    \/ \E t \in Tasks : Fetch(t)
    \/ \E t \in Tasks : Today(t)
    \/ \E t \in Tasks : Tomorrow(t)

SpecDel == InitDel /\ [][NextDel]_vars

TypeOK ==
    /\ clock \in 1..MaxDay
    /\ \A u \in Users : db[u].exists => db[u].provider \in Providers
    /\ \A t \in Tasks : run[t].pc \in {"idle", "start", "fetch", "hung", "today", "tomorrow", "done"}


\* ------------------------------------------------------------ claims: helpers
\* the stored state string a run read at its start (sub.last_hash)
Stored(f) == f.sub.last_hash

\* the sends of a run for one day, in order
DaySends(f, day) == SelectSeq(f.sends, LAMBDA m : m.day = day)

\* a poll-mode run
PollRun(f) == f.mode = "poll" /\ f.pc # "start"

\* the run has evaluated "Check Today" (its provider requests succeeded)
TodayChecked(f) ==
    \/ f.pc = "tomorrow"
    \/ f.pc = "done" /\ f.end \in {"returned", "raised_forbidden", "raised_error"}

\* the run is over and no send of it was permanently rejected
OverNotRejected(f) == f.pc = "done" /\ f.end \in {"returned", "raised_error"}

\* the silent-match condition of a rollover
SilentMatch(f) ==
    /\ s_tomorrow_hash(Stored(f)) # <<>>
    /\ get_day_hash(f.today) = s_tomorrow_hash(Stored(f))

\* the run sent exactly one message for `day`, with this header
SentOnce(f, day, header) ==
    /\ Len(DaySends(f, day)) = 1
    /\ DaySends(f, day)[1].header = header

\* the position of a frame between its read of the row and its write-back
InFlight(f) == f.pc \in {"fetch", "hung", "today", "tomorrow"}

\* --------------------------------------------------------------------- C1
\* C1 (as claimed): in a poll run whose today is present with a date other
\* than the stored today date and whose fingerprint equals the non-empty
\* stored tomorrow fingerprint, no today notification is sent and the row's
\* today pair after the run is (today.date, fp_today).
C1_SilentRollover ==
    \A t \in Tasks :
        LET f == run[t] IN
        (/\ PollRun(f) /\ OverNotRejected(f)
         /\ f.today.present
         /\ f.today.date # s_today_date(Stored(f))
         /\ SilentMatch(f))
        => /\ DaySends(f, "today") = <<>>
           /\ f.after.exists
           /\ s_today_date(f.after.last_hash) = f.today.date
           /\ s_today_hash(f.after.last_hash) = get_day_hash(f.today)

\* --------------------------------------------------------------------- C2
\* C2: in a poll run that evaluates the today check with today present, a
\* date other than the stored today date and no silent match, exactly one
\* today notification is sent; its header is "today's schedule appeared"
\* when the stored tomorrow fingerprint is empty, "schedule updated" otherwise.
C2_RolloverAlertFraming ==
    \A t \in Tasks :
        LET f == run[t] IN
        (/\ PollRun(f) /\ TodayChecked(f)
         /\ f.today.present
         /\ f.today.date # s_today_date(Stored(f))
         /\ ~SilentMatch(f))
        => SentOnce(f, "today",
                    IF s_tomorrow_hash(Stored(f)) = <<>>
                    THEN HdrTodayAppeared ELSE HdrTodayUpdated)

\* a rollover whose today differs from the tomorrow shown before: "updated"
C2_Witness ==
    \E t \in Tasks :
        LET f == run[t] IN
        /\ PollRun(f) /\ TodayChecked(f)
        /\ f.today.present
        /\ f.today.date = DateStr(2)
        /\ s_today_date(Stored(f)) = DateStr(1)
        /\ s_tomorrow_hash(Stored(f)) # <<>>
        /\ get_day_hash(f.today) # s_tomorrow_hash(Stored(f))
        /\ SentOnce(f, "today", HdrTodayUpdated)

\* --------------------------------------------------------------------- C3
\* C3: in a poll run that evaluates the today check with today present and
\* today.date equal to the stored today date, a today notification with the
\* header "schedule changed" is sent exactly when fp_today differs from the
\* stored today fingerprint; otherwise no today notification is sent.
C3_SameDateChange ==
    \A t \in Tasks :
        LET f == run[t] IN
        (/\ PollRun(f) /\ TodayChecked(f)
         /\ f.today.present
         /\ f.today.date = s_today_date(Stored(f)))
        => IF get_day_hash(f.today) # s_today_hash(Stored(f))
           THEN SentOnce(f, "today", HdrTodayChanged)
           ELSE DaySends(f, "today") = <<>>

\* the same date with another slot list: "changed"
C3_Witness ==
    \E t \in Tasks :
        LET f == run[t] IN
        /\ PollRun(f) /\ TodayChecked(f)
        /\ f.today.present
        /\ f.today.date = s_today_date(Stored(f))
        /\ s_today_hash(Stored(f)) # <<>>
        /\ get_day_hash(f.today) # s_today_hash(Stored(f))
        /\ SentOnce(f, "today", HdrTodayChanged)

\* --------------------------------------------------------------------- C4
\* C4 (as claimed): in a poll run with tomorrow present, a tomorrow
\* notification is sent with the "appeared/changed" header when
\* tomorrow.date differs from the stored tomorrow date, with the "tomorrow's
\* schedule changed" header when the dates are equal and the fingerprints
\* differ, and none is sent when date and fingerprint equal the stored ones.
C4_TomorrowTable ==
    \A t \in Tasks :
        LET f == run[t] IN
        (/\ PollRun(f) /\ OverNotRejected(f)
         /\ f.tomorrow.present)
        => IF f.tomorrow.date # s_tomorrow_date(Stored(f))
           THEN SentOnce(f, "tomorrow", HdrTomorrowNew)
           ELSE IF get_day_hash(f.tomorrow) # s_tomorrow_hash(Stored(f))
                THEN SentOnce(f, "tomorrow", HdrTomorrowChanged)
                ELSE DaySends(f, "tomorrow") = <<>>

\* --------------------------------------------------------------------- C5
\* C5 (as claimed): after a poll run whose fetch succeeded, the row's state
\* is the encoding of the observed (today, tomorrow), whether the run's
\* sends succeeded or failed transiently.
C5_PersistRegardlessOfDelivery ==
    \A t \in Tasks :
        LET f == run[t] IN
        (/\ PollRun(f) /\ OverNotRejected(f)
         /\ f.fetched = "ok")
        => /\ f.after.exists
           /\ f.after.last_hash = new_combined_hash(f.today, f.tomorrow)

\* --------------------------------------------------------------------- C6
\* C6 (as claimed): after a poll run in which the provider's request or
\* parsing failed, the row is what it was and the run sent nothing.
C6_FetchFailureNoTrace ==
    \A t \in Tasks :
        LET f == run[t] IN
        (/\ PollRun(f) /\ f.pc = "done"
         /\ f.fetched = "failed")
        => /\ f.sends = <<>>
           /\ f.after = f.sub

\* --------------------------------------------------------------------- C7
\* C7 (as claimed): two executions of process_subscription for one
\* subscriber are never both between their read of the row and their
\* write-back.
C7_Serialized ==
    \A t1, t2 \in Tasks :
        (t1 # t2 /\ InFlight(run[t1]) /\ InFlight(run[t2]))
        => run[t1].user # run[t2].user

\* --------------------------------------------------------------------- C8
\* C8 (as claimed): a poll run whose fetch succeeded and whose sends did not
\* raise writes the row exactly when the observed encoding differs from the
\* stored string, and after the run the row's state is the observed encoding.
C8_PersistenceRule ==
    \A t \in Tasks :
        LET f == run[t] IN
        (/\ PollRun(f) /\ f.pc = "done" /\ f.end = "returned"
         /\ f.fetched = "ok")
        => /\ f.wrote <=> (new_combined_hash(f.today, f.tomorrow) # Stored(f))
           /\ f.after.exists
           /\ f.after.last_hash = new_combined_hash(f.today, f.tomorrow)

\* --------------------------------------------------------------------- C9
\* C9: when a send of a poll run is permanently rejected, the row is gone
\* when the run ends, the rejected send is the run's last send and was made
\* once, and the subscriber does not come up again in the job's snapshot.
C9_RejectionDeletes ==
    LET f == run["poll"] IN
    (/\ PollRun(f) /\ f.pc = "done"
     /\ \E i \in 1..Len(f.sends) : f.sends[i].result = "forbidden")
    => /\ ~f.after.exists
       /\ \A i \in 1..Len(f.sends) : (f.sends[i].result = "forbidden") <=> (i = Len(f.sends))
       /\ Len(DaySends(f, "today")) <= 1
       /\ Len(DaySends(f, "tomorrow")) <= 1
       /\ \A i \in (pollIdx + 1)..Len(pollSubs) : pollSubs[i] # f.user

\* the first of two subscribers rejects the tomorrow message
C9_Witness ==
    LET f == run["poll"] IN
    /\ PollRun(f) /\ f.pc = "done"
    /\ Len(f.sends) = 2
    /\ f.sends[2].result = "forbidden"
    /\ ~db[f.user].exists
    /\ pollIdx < Len(pollSubs)

\* -------------------------------------------------------------------- C10
\* C10: when a send of a poll run fails with another error, the row stays,
\* the failed send is the run's last send and was made once, and the job's
\* loop stands at this subscriber and goes on to the next one.
C10_TransientFailure ==
    LET f == run["poll"] IN
    (/\ PollRun(f) /\ f.pc = "done"
     /\ \E i \in 1..Len(f.sends) : f.sends[i].result = "error")
    => /\ f.after.exists
       /\ \A i \in 1..Len(f.sends) : (f.sends[i].result = "error") <=> (i = Len(f.sends))
       /\ Len(DaySends(f, "today")) <= 1
       /\ Len(DaySends(f, "tomorrow")) <= 1
       /\ pollIdx \in 1..Len(pollSubs)
       /\ pollSubs[pollIdx] = f.user
       /\ pollIdx < Len(pollSubs) => ENABLED PollNext

\* the today message of the first of two subscribers fails
C10_Witness ==
    LET f == run["poll"] IN
    /\ PollRun(f) /\ f.pc = "done"
    /\ Len(f.sends) = 1
    /\ f.sends[1].result = "error"
    /\ db[f.user].exists
    /\ pollIdx < Len(pollSubs)

\* -------------------------------------------------------------------- C11
\* the snapshot of the job holds every subscriber once
NoDuplicates(q) == \A i, j \in 1..Len(q) : q[i] = q[j] => i = j

\* one step of the job: a new cycle starts only when the loop is through
\* its snapshot; within a cycle the snapshot is fixed and the loop moves by
\* one row, after the call for the row before has ended
LoopStep ==
    IF polls' # polls
    THEN /\ pollIdx = Len(pollSubs)
         /\ pollIdx' = IF pollSubs' = <<>> THEN 0 ELSE 1
    ELSE /\ pollSubs' = pollSubs
         /\ pollIdx' \in {pollIdx, pollIdx + 1}
         /\ pollIdx' = pollIdx + 1 => run["poll"].pc = "done"
         /\ (pollIdx' = pollIdx /\ run["poll"].pc = "done") => run'["poll"] = run["poll"]

\* C11: the calls of a poll cycle are made for the rows of its snapshot, in
\* order, each row once; however the call for a row ends (fetch failure, send
\* failure, permanent rejection), the loop goes on to the next row.
C11_FailureIsolation ==
    /\ [](/\ NoDuplicates(pollSubs)
          /\ pollIdx \in 0..Len(pollSubs)
          /\ pollIdx > 0 => run["poll"].user = pollSubs[pollIdx]
          /\ (run["poll"].pc = "done" /\ pollIdx < Len(pollSubs)) => ENABLED PollNext)
    /\ [][LoopStep]_vars

\* the first subscriber was removed on a rejection, the second one's call
\* ended on a failed fetch, and the loop is through the snapshot
C11_Witness ==
    /\ Len(pollSubs) = 2
    /\ pollIdx = 2
    /\ ~db[pollSubs[1]].exists
    /\ run["poll"].pc = "done"
    /\ run["poll"].user = pollSubs[2]
    /\ run["poll"].end = "fetch_failed"

\* -------------------------------------------------------------------- C12
\* a run of a handler (refresh or first_run)
NonPollRun(f) == f.mode \in {"refresh", "first_run"} /\ f.pc # "start"

\* C12 (as claimed): a refresh or first_run run for an existing subscription
\* whose provider requests succeeded sends one today message without header
\* (also when today is absent), sends a tomorrow message exactly when
\* tomorrow is present, and leaves the row with the encoding of the observed
\* days, whatever it held before.
C12_NonPollBypass ==
    \A t \in Tasks :
        LET f == run[t] IN
        (/\ NonPollRun(f) /\ f.pc = "done"
         /\ f.fetched = "ok"
         /\ f.end # "regions_failed")
        => /\ SentOnce(f, "today", Plain)
           /\ Len(DaySends(f, "tomorrow")) = (IF f.tomorrow.present THEN 1 ELSE 0)
           /\ f.after.exists
           /\ f.after.last_hash = new_combined_hash(f.today, f.tomorrow)

\* -------------------------------------------------------------------- C13
\* C13: a poll run sends no today notification when the fetched today is
\* absent and no tomorrow notification when the fetched tomorrow is absent,
\* whatever the stored state.
C13_AbsentDayNoAction ==
    \A t \in Tasks :
        LET f == run[t] IN
        PollRun(f) =>
            /\ ~f.today.present => DaySends(f, "today") = <<>>
            /\ ~f.tomorrow.present => DaySends(f, "tomorrow") = <<>>

\* both days were stored with a fingerprint and the feed has withdrawn them:
\* the run is over and has sent nothing
C13_Witness ==
    \E t \in Tasks :
        LET f == run[t] IN
        /\ PollRun(f) /\ f.pc = "done" /\ f.end = "returned"
        /\ f.fetched = "ok"
        /\ ~f.today.present /\ ~f.tomorrow.present
        /\ s_today_hash(Stored(f)) # <<>>
        /\ s_tomorrow_hash(Stored(f)) # <<>>
        /\ f.sends = <<>>

WorksFor(t, u) == run'[t] # run[t] /\ run'[t].user = u

\* the step begins a call of process_subscription in task t
Begins(t) ==
    /\ run'[t] # run[t]
    /\ run[t].pc \in {"idle", "start", "done"}
    /\ run'[t].pc \notin {"idle", "start"}

\* C15: a step changes the row of a subscriber (its stored state or its
\* existence) only when it is a step of the processing of that subscriber,
\* and a call of process_subscription works on the row of its own subscriber
\* as read at its start.
C15_CrossSubscriberIsolation ==
    [][/\ \A u \in Users : db'[u] # db[u] => \E t \in Tasks : WorksFor(t, u)
       /\ \A t \in Tasks :
            (Begins(t) /\ run'[t].pc # "done") => run'[t].sub = db[run'[t].user]]_vars

\* the job has removed subscriber 2 on a rejection while the refresh of
\* subscriber 1 has written its row: each row carries its own outcome
C15_Witness ==
    /\ run["poll"].pc = "done" /\ run["poll"].user = 2
    /\ run["poll"].end = "raised_forbidden"
    /\ ~db[2].exists
    /\ run["ui"].pc = "done" /\ run["ui"].user = 1
    /\ run["ui"].wrote
    /\ db[1].exists
    /\ db[1].last_hash = new_combined_hash(run["ui"].today, run["ui"].tomorrow)

\* -------------------------------------------------------------------- C16
\* the (date, fingerprint) pair of an optional day: ("", "") when absent
PairOf(day) == IF day.present THEN <<day.date, get_day_hash(day)>> ELSE << <<>>, <<>> >>

\* C16: the string made from a pair of optional days parses back to the
\* (date, fingerprint) pairs of those days, an absent day giving ("", "");
\* a side of a legacy string, which has no "|", parses to the empty date and
\* the whole side as fingerprint.
C16_StateRoundTrip ==
    /\ (calc.op = "roundtrip" /\ calc.stage = "pairs")
         => /\ calc.today_pair = PairOf(calc.today)
            /\ calc.tomorrow_pair = PairOf(calc.tomorrow)
    /\ (calc.op = "legacy" /\ calc.stage = "pairs")
         => /\ calc.today_pair = << <<>>, calc.today_side >>
            /\ calc.tomorrow_pair = << <<>>, calc.tomorrow_side >>

\* a present today and an absent tomorrow went through the string and back
C16_Witness ==
    /\ calc.op = "roundtrip" /\ calc.stage = "pairs"
    /\ calc.today.present /\ calc.today.outages # <<>>
    /\ ~calc.tomorrow.present
    /\ calc.str = calc.today.date \o <<"|">> \o get_day_hash(calc.today) \o <<":">>
    /\ calc.today_pair = <<calc.today.date, get_day_hash(calc.today)>>

\* -------------------------------------------------------------------- C17
\* a token that is no separator
Word(x) == x \notin {"|", ":"}

\* one side of a state string in a shape the code writes or has written:
\* empty, a bare fingerprint (legacy), or date|fingerprint
SideShape(side) ==
    \/ side = <<>>
    \/ Len(side) = 1 /\ Word(side[1])
    \/ Len(side) = 3 /\ Word(side[1]) /\ side[2] = "|" /\ Word(side[3])

\* a stored string in an expected shape: one side alone, or two sides and ":"
ExpectedShape(stored) ==
    \/ SideShape(stored)
    \/ \E i \in 1..Len(stored) :
         /\ stored[i] = ":"
         /\ SideShape(SubSeq(stored, 1, i - 1))
         /\ SideShape(SubSeq(stored, i + 1, Len(stored)))

\* C17 (as claimed): from a stored string in an unexpected shape, a poll run
\* sends the notifications and writes the state it would from the empty
\* stored string.
C17_CorruptionAsNeverSeen ==
    (calc.op = "decide" /\ calc.stage = "decided" /\ ~ExpectedShape(calc.stored))
    => /\ calc.today_msg = CheckToday(calc.today, <<>>)
       /\ calc.tomorrow_msg = CheckTomorrow(calc.tomorrow, <<>>)
       /\ calc.writes = SaveNeeded("poll", calc.today, calc.tomorrow, <<>>)

\* -------------------------------------------------------------------- C18
\* C18: in every run of process_subscription (poll, refresh, first_run) a
\* today notification is never sent after a tomorrow notification, and at
\* most one notification per day is sent.
C18_TodayBeforeTomorrow ==
    \A t \in Tasks :
        LET f == run[t] IN
        /\ Len(DaySends(f, "today")) <= 1
        /\ Len(DaySends(f, "tomorrow")) <= 1
        /\ \A i, j \in 1..Len(f.sends) :
             (f.sends[i].day = "today" /\ f.sends[j].day = "tomorrow") => i < j

\* a poll run and a handler's run that each sent today, then tomorrow
C18_Witness ==
    \A t \in Tasks :
        LET f == run[t] IN
        /\ f.pc = "done" /\ f.end = "returned"
        /\ Len(f.sends) = 2
        /\ f.sends[1].day = "today"
        /\ f.sends[2].day = "tomorrow"

\* -------------------------------------------------------------------- C19
\* the state a sample is classified as: ON, or the kind of a slot
StateOf(op, code) ==
    IF op = "svitlo" THEN (IF code = 2 THEN "outage" ELSE "on")
    ELSE IF code = 1 THEN "outage" ELSE IF code = 10 THEN "switching" ELSE "on"

\* the samples earlier and later in the day than the sample at t
Earlier(m, t) == {u \in DOMAIN m : to_minutes(u) < to_minutes(t)}
Later(m, t) == {u \in DOMAIN m : to_minutes(u) > to_minutes(t)}

\* the sample at t is the first of a maximal run of one non-ON state
RunStart(op, m, t) ==
    /\ StateOf(op, m[t]) # "on"
    /\ \A u \in Earlier(m, t) :
         (\A w \in Earlier(m, t) : to_minutes(w) <= to_minutes(u))
         => StateOf(op, m[u]) # StateOf(op, m[t])

\* the time of the first later sample in another state, or "24:00"
RunEnd(op, m, t) ==
    LET other == {u \in Later(m, t) : StateOf(op, m[u]) # StateOf(op, m[t])} IN
    IF other = {} THEN EndOfDay
    ELSE CHOOSE u \in other : \A w \in other : to_minutes(u) <= to_minutes(w)

\* one slot for every maximal run
RunSlots(op, m) ==
    {Slot(t, RunEnd(op, m, t), StateOf(op, m[t])) : t \in {u \in DOMAIN m : RunStart(op, m, u)}}

\* the elements of a list
Range(q) == {q[i] : i \in 1..Len(q)}

\* C19: each extractor returns exactly one slot for every maximal run of
\* time-ordered samples in one non-ON state, from the time of the run's first
\* sample to the time of the first later sample in another state ("24:00"
\* when there is none), of the kind of the run; nothing else is returned.
C19_ExtractorCorrect ==
    (calc.op \in {"svitlo", "ternopil"} /\ calc.stage = "slots")
    => /\ Range(calc.outages) = RunSlots(calc.op, calc.samples)
       /\ Len(calc.outages) = Cardinality(RunSlots(calc.op, calc.samples))

\* the example {00:00 ON, 01:00 OUTAGE, 01:30 OUTAGE, 02:00 ON} for Ternopil
\* gives the one slot 01:00-02:00 outage
C19_Witness ==
    /\ calc.op = "ternopil" /\ calc.stage = "slots"
    /\ calc.samples = (<<0,0,0,0>> :> 0) @@ (<<0,1,0,0>> :> 1) @@
                      (<<0,1,3,0>> :> 1) @@ (<<0,2,0,0>> :> 0)
    /\ calc.outages = << Slot(<<0,1,0,0>>, <<0,2,0,0>>, "outage") >>

\* -------------------------------------------------------------------- C20
\* C20: the slot list of each extractor is sorted by start, no slot reaches
\* into the next one, every slot starts before it ends (times compared as
\* strings, "24:00" being the end of the day), and every kind is outage or
\* switching.
C20_SlotListInvariant ==
    (calc.op \in {"svitlo", "ternopil"} /\ calc.stage = "slots")
    => LET q == calc.outages IN
       /\ \A i \in 1..Len(q) :
            /\ StrLess(q[i].start, q[i].end)
            /\ q[i].kind \in {"outage", "switching"}
       /\ \A i \in 1..(Len(q) - 1) :
            /\ StrLess(q[i].start, q[i + 1].start)
            /\ q[i].end = q[i + 1].start \/ StrLess(q[i].end, q[i + 1].start)

\* an outage handing over to a switching slot that lasts to the end of the day
C20_Witness ==
    /\ calc.op = "ternopil" /\ calc.stage = "slots"
    /\ Len(calc.outages) = 2
    /\ calc.outages[1].kind = "outage"
    /\ calc.outages[2].kind = "switching"
    /\ calc.outages[1].end = calc.outages[2].start
    /\ calc.outages[2].end = EndOfDay

\* -------------------------------------------------------------------- C21
\* a day entry without usable samples: none at all or, for Svitlo, only the
\* code 0 (no data)
NoUsableSamples(op, m) ==
    \/ DOMAIN m = {}
    \/ op = "svitlo" /\ \A t \in DOMAIN m : m[t] = 0

\* a day entry whose samples are all ON
AllOn(op, m) ==
    /\ DOMAIN m # {}
    /\ \A t \in DOMAIN m : m[t] = (IF op = "svitlo" THEN 1 ELSE 0)

\* C21 (as claimed): each provider returns a day entry without usable
\* samples as an absent day, and a day entry whose samples are all ON as a
\* present day with an empty outage list.
C21_NoDataVersusNoOutages ==
    (calc.op \in {"svitlo", "ternopil"} /\ calc.stage = "slots")
    => /\ NoUsableSamples(calc.op, calc.samples) => ~calc.day.present
       /\ AllOn(calc.op, calc.samples)
            => (calc.day.present /\ calc.day.outages = <<>>)

\* -------------------------------------------------------------------- C22
\* C22: two present days with equal outage lists have equal fingerprints,
\* whatever their title, group_key and date, and digesting the same day
\* again gives the same fingerprint.
C22_FingerprintDeterminism ==
    (calc.op = "hash" /\ calc.stage = "hashes")
    => /\ calc.h_a_again = calc.h_a
       /\ (calc.a.present /\ calc.b.present /\ calc.a.outages = calc.b.outages)
            => calc.h_a = calc.h_b

\* two days with the same two slots under different title, date and group
C22_Witness ==
    /\ calc.op = "hash" /\ calc.stage = "hashes"
    /\ calc.a.present /\ calc.b.present
    /\ Len(calc.a.outages) = 2
    /\ calc.a.outages = calc.b.outages
    /\ calc.a.title # calc.b.title
    /\ calc.a.date # calc.b.date
    /\ calc.a.group_key # calc.b.group_key
    /\ calc.h_a = calc.h_b

\* -------------------------------------------------------------------- C23
\* C23: two present days whose outage lists differ (in a slot's start, end
\* or kind, in length or in order) have different fingerprints, and the
\* fingerprint of an absent day is the empty string, which no present day
\* has, not even one with an empty outage list.
C23_FingerprintSensitivity ==
    (calc.op = "hash" /\ calc.stage = "hashes")
    => /\ (calc.a.present /\ calc.b.present /\ calc.a.outages # calc.b.outages)
            => calc.h_a # calc.h_b
       /\ ~calc.a.present => calc.h_a = <<>>
       /\ calc.a.present => calc.h_a # <<>>

\* an absent day next to a present day without outages: "" and a digest
C23_Witness ==
    /\ calc.op = "hash" /\ calc.stage = "hashes"
    /\ ~calc.a.present
    /\ calc.b.present /\ calc.b.outages = <<>>
    /\ calc.h_a = <<>>
    /\ calc.h_b # <<>>

\* -------------------------------------------------------------------- C24
\* C24 (as claimed): when a poll run finds today present under a date other
\* than the stored today date and sends no today notification, the stored
\* tomorrow pair has the date and the fingerprint of the new today.
C24_SilentOnlyIfShown ==
    \A t \in Tasks :
        LET f == run[t] IN
        (/\ PollRun(f) /\ TodayChecked(f)
         /\ f.today.present
         /\ f.today.date # s_today_date(Stored(f))
         /\ DaySends(f, "today") = <<>>)
        => /\ s_tomorrow_date(Stored(f)) = f.today.date
           /\ s_tomorrow_hash(Stored(f)) = get_day_hash(f.today)

\* -------------------------------------------------------------------- C25
\* a cycle that ran to its end: the fetch answered and the run returned
Completed(f) == f.fetched = "ok" /\ f.end = "returned"

\* the log holds the cycles i, i+1, i+2, all completed
ThreeCompleted(i) ==
    /\ calc.op = "cycles"
    /\ i + 2 <= Len(calc.log)
    /\ \A k \in i..(i + 2) : Completed(calc.log[k])

\* C25 (as claimed): when a day is present in one completed cycle, absent in
\* the next and present again with the same date and fingerprint in the one
\* after, neither of the two later cycles sends a notification for it; for
\* today and for tomorrow.
C25_TransientAbsence ==
    calc.op = "cycles" =>
    \A i \in 1..MaxCycles :
        ThreeCompleted(i) =>
            LET a == calc.log[i]
                b == calc.log[i + 1]
                c == calc.log[i + 2] IN
            /\ (a.today.present /\ ~b.today.present /\ c.today = a.today)
                 => (DaySends(b, "today") = <<>> /\ DaySends(c, "today") = <<>>)
            /\ (a.tomorrow.present /\ ~b.tomorrow.present /\ c.tomorrow = a.tomorrow)
                 => (DaySends(b, "tomorrow") = <<>> /\ DaySends(c, "tomorrow") = <<>>)

\* -------------------------------------------------------------------- C26
\* a cycle whose fetch answered and whose run came to its end, by returning
\* or by a send that failed transiently
CycleDone(f) == f.fetched = "ok" /\ f.end \in {"returned", "raised_error"}

\* C26 (as claimed): when two cycles in a row both complete and fetch the
\* same today and the same tomorrow (presence, date, outage list), the second
\* one sends nothing and does not write the row.
C26_NoRenotification ==
    calc.op = "cycles" =>
    \A i \in 1..(Len(calc.log) - 1) :
        LET a == calc.log[i]
            b == calc.log[i + 1] IN
        (/\ CycleDone(a) /\ CycleDone(b)
         /\ b.today = a.today
         /\ b.tomorrow = a.tomorrow)
        => /\ b.sends = <<>>
           /\ ~b.wrote

\* -------------------------------------------------------------------- C27
\* C27: rendering a day, merged lines included, leaves the day's outage
\* list as it was: the fingerprint after the rendering is the one computed
\* before it, and so is the day's part of the state to persist.
C27_RenderingKeepsDay ==
    (calc.op = "render" /\ calc.stage = "sent")
    => /\ calc.day_after = calc.day
       /\ get_day_hash(calc.day_after) = calc.hash_before
       /\ make_state(calc.day_after, get_day_hash(calc.day_after)) = calc.state_before

\* an outage followed by its switching slot was rendered as one merged line
C27_Witness ==
    /\ calc.op = "render" /\ calc.stage = "sent"
    /\ calc.day.present
    /\ Len(calc.day.outages) = 2
    /\ \E i \in 1..Len(calc.text) : calc.text[i][1] = "switching on from"
    /\ calc.day_after.outages = calc.day.outages

\* -------------------------------------------------------------------- C28
\* C28: the upsert of pick_subgroup gives a subscriber who had no row the
\* empty stored state, and leaves the stored state of a subscriber who had a
\* row as it was, whatever provider is chosen.
C28_UpsertKeepsState ==
    [][pick_subgroup =>
         \A u \in UiUsers :
             run'["ui"].user = u =>
                 /\ db'[u].exists
                 /\ db'[u].last_hash = IF db[u].exists THEN db[u].last_hash ELSE <<>>
                 /\ \A v \in Users \ {u} : db'[v] = db[v]]_vars

\* the upsert has run for a subscriber whose row held a state with dates
\* written by a poll cycle, and the first_run has not yet begun
C28_Witness ==
    /\ run["ui"].pc = "start"
    /\ run["ui"].mode = "first_run"
    /\ db[run["ui"].user].exists
    /\ Len(db[run["ui"].user].last_hash) > 1
    /\ run["poll"].pc = "done"
    /\ run["poll"].user = run["ui"].user
    /\ run["poll"].wrote

\* -------------------------------------------------------------------- C29
\* C29: a deleted row comes back only through the upsert of pick_subgroup:
\* no other step, the set_last_hash of a run that read the row before the
\* deletion included, makes a missing row exist, and a poll run that finds
\* no row ends without a send and without a change to the store.
C29_DeletionStays ==
    [][/\ \A u \in Users :
            (~db[u].exists /\ db'[u].exists) => (pick_subgroup /\ run'["ui"].user = u)
       /\ \A t \in Tasks :
            (/\ Begins(t) /\ run'[t].mode = "poll"
             /\ ~db[run'[t].user].exists)
            => /\ run'[t].pc = "done"
               /\ run'[t].sends = <<>>
               /\ ~run'[t].wrote
               /\ db' = db]_vars

\* the broadcast has deleted rows while a refresh that had read its row was
\* under way and the poll job had the rows in its list: the refresh has
\* called set_last_hash, a poll run has found no row, and the rows are
\* still gone
C29_Witness ==
    /\ calc.op = "broadcast" /\ calc.stage = "done"
    /\ run["ui"].pc = "done" /\ run["ui"].wrote
    /\ run["ui"].user \in calc.deleted
    /\ run["poll"].pc = "done" /\ run["poll"].end = "no_sub"
    /\ run["poll"].user \in calc.deleted
    /\ \A u \in calc.deleted : ~db[u].exists

=============================================================================
